---- MODULE Spec2Model ----
(***************************************************************************)
(* Cycle based state machine of src/simulation/statemachine.py.            *)
(*                                                                         *)
(* The program state is the five fields of a StateMachine instance.  Each  *)
(* public operation (extend, process, reset, the target setter) is one     *)
(* action; process(dt) is doProcess(dt), to which the CanProcess base      *)
(* class delegates.  The remaining variables record the last operation:    *)
(* its inputs and what it did (events raised, guards evaluated, fault      *)
(* propagated), so that the properties of one call can be stated over a    *)
(* single state.  A call that raises keeps the assignments made before     *)
(* the exception, as in Python.                                            *)
(***************************************************************************)
EXTENDS Naturals, Sequences, FiniteSets, TLC

VARIABLES
    _target,      \* self._target
    _initial,     \* self._initial
    _state,       \* self._state
    _handler,     \* self._handler:    state -> event -> binding
    _transition,  \* self._transition: from-state -> <<[to, check], ...>> in iteration order
    armed,        \* what last put the machine before its first cycle: "init", "reset"; "no" once process ran
    pre_armed,    \* process: armed when the call was made
    op,           \* the last operation: "init", "extend", "process", "reset", "target"
    pre,          \* self._state when the last operation was called
    pre_target,   \* self._target when the last operation was called
    entered,      \* the initial state entered by the first cycle since construction or the last reset
    in_dt,        \* process: the dt argument
    in_gv,        \* process: what each guard callable returns (or raises) when invoked
    in_cfg,       \* extend: the cfg argument
    events,       \* process: the _raise_event calls that found a binding, in order
    evaluated,    \* process: the _check_transition calls, in order
    fired,        \* process: the transitions whose guard returned true
    fault         \* the exception that left the last operation ("none": it returned)

vars == <<_target, _initial, _state, _handler, _transition, armed, pre_armed, op, pre, pre_target,
          entered, in_dt, in_gv, in_cfg, events, evaluated, fired, fault>>

-----------------------------------------------------------------------------
(* Bounds of the model *)

MaxTransitions == 2   \* transitions in the topology

-----------------------------------------------------------------------------
(* Values *)

\* Python's None: the state before the first cycle, a disabled handler, an unset field
None == "None"

StateNames == {"Idle", "A", "B"}

Events == {"on_entry", "in_state", "on_exit"}

\* self._prefix
Prefix(key) ==
    CASE key = "on_entry"   -> "_on_entry_"
      [] key = "in_state"   -> "_in_state_"
      [] key = "on_exit"    -> "_on_exit_"
      [] key = "transition" -> "_check_"

\* A condition function of a cfg: a function reference / lambda (callable) or a string name
Callable(id) == [callable |-> TRUE, id |-> id]
Named(id) == [callable |-> FALSE, id |-> id]

Checks == {Callable("f"), Named("n")}

\* The (from, to) pairs the cfgs are drawn from
Pairs == { <<"Idle", "A">>, <<"Idle", "B">>, <<"A", "Idle">>, <<"A", None>> }

Triples == { [from |-> p[1], to |-> p[2], check |-> c] : p \in Pairs, c \in Checks }

\* cfg dicts: 'initial' is optional (hasInitial), 'transitions' defaults to []
CfgsWith(lists) ==
    { c \in [hasInitial : BOOLEAN, initial : {"Idle", "B"}, transitions : lists] :
        c.hasInitial \/ c.initial = "Idle" }

\* the cfgs given to extend: no transition or one
Cfgs == CfgsWith({<<>>} \cup { <<t>> : t \in Triples })

\* the cfgs given to the constructor: also two transitions leaving Idle
InitCfgs ==
    Cfgs \cup CfgsWith({ <<t, u>> : t \in { x \in Triples : x.from = "Idle" },
                                    u \in { x \in Triples : x.from = "Idle" } })

\* Where a new key lands in the iteration order of a dict (Python 2 hash order)
Positions ==
    { k \in 1..Cardinality(Pairs) :
        \E s \in StateNames : k <= Cardinality({ p \in Pairs : p[1] = s }) }

\* Target objects.  Member(t, name) is what getattr(t, name) finds:
\* a method ("callable"), a plain attribute ("attr") or nothing ("missing").
Targets == {"T1", "T2"}

Member(t, name) ==
    IF t = "T1" THEN
        IF name \in {"_on_entry_Idle", "_in_state_Idle", "_on_exit_Idle",
                     "_on_entry_A", "_in_state_A", "_in_state_B", "_check_n"}
        THEN "callable" ELSE "missing"
    ELSE
        IF name \in {"_on_entry_Idle", "_in_state_A", "_on_entry_B"} THEN "callable"
        ELSE IF name \in {"_in_state_Idle", "_on_exit_A"} THEN "attr"
        ELSE "missing"

\* The callables a cycle can invoke as guards, and what an invocation does
GuardKeys == {"f", "_check_n"}
\* (true, false or an exception of its own; only the function reference f is let raise)
GuardOutcomes ==
    { g \in [GuardKeys -> {"true", "false", "raise"}] : g["_check_n"] # "raise" }
HandlerFaults == Events \cup {"none"}
Dts == {1, 2}

-----------------------------------------------------------------------------
(* Helpers on dicts *)

\* d[k] = v for a dict modelled as a function
Put(d, k, v) == [x \in DOMAIN d \cup {k} |-> IF x = k THEN v ELSE d[x]]

\* index of key `to` in an iteration-ordered item list, 0 when absent
RECURSIVE IndexOf(_, _, _)
IndexOf(items, to, i) ==
    IF i > Len(items) THEN 0
    ELSE IF items[i].to = to THEN i
    ELSE IndexOf(items, to, i + 1)

InsertAt(items, pos, x) ==
    LET p == IF pos > Len(items) + 1 THEN Len(items) + 1 ELSE pos
    IN  SubSeq(items, 1, p - 1) \o <<x>> \o SubSeq(items, p, Len(items))

-----------------------------------------------------------------------------
(* The StateMachine methods, as operators on a machine record m:           *)
(* target, initial, state, handler, transition are the fields of self;     *)
(* events, evaluated, fired log what the call did; fault is the exception  *)
(* propagating out of the call ("none" while it runs normally).            *)

EmptyDict == [x \in {} |-> None]

Blank ==
    [target |-> None, initial |-> None, state |-> None,
     handler |-> EmptyDict, transition |-> EmptyDict,
     events |-> <<>>, evaluated |-> <<>>, fired |-> <<>>, fault |-> "none"]

\* _add_state(state, *args): args are the explicit handlers, if any
AddState(m, state, args) ==
    IF Len(args) < 3 /\ state = None
    THEN [m EXCEPT !.fault = "TypeError"]      \* '_on_entry_' + None
    ELSE LET on_entry == IF Len(args) > 0 THEN args[1] ELSE Prefix("on_entry") \o state
             in_state == IF Len(args) > 1 THEN args[2] ELSE Prefix("in_state") \o state
             on_exit  == IF Len(args) > 2 THEN args[3] ELSE Prefix("on_exit") \o state
         IN  [m EXCEPT !.handler =
                 Put(m.handler, state,
                     [on_entry |-> on_entry, in_state |-> in_state, on_exit |-> on_exit])]

\* _add_transition that starts the dict of from_state anew on every call
AddTransitionClobber(m, from_state, to_state, transition_check, pos) ==
    LET stored == IF transition_check.callable THEN transition_check
                  ELSE Named(Prefix("transition") \o transition_check.id)
    IN  [m EXCEPT !.transition =
            Put(m.transition, from_state, <<[to |-> to_state, check |-> stored]>>)]

\* _add_transition(from_state, to_state, transition_check); pos is where a new
\* to_state key lands in the iteration order of self._transition[from_state]
AddTransition(m, from_state, to_state, transition_check, pos) ==
    LET items  == IF from_state \in DOMAIN m.transition
                  THEN m.transition[from_state] ELSE <<>>
        stored == IF transition_check.callable THEN transition_check
                  ELSE Named(Prefix("transition") \o transition_check.id)
        item   == [to |-> to_state, check |-> stored]
        i      == IndexOf(items, to_state, 1)
        items2 == IF i = 0 THEN InsertAt(items, pos, item)
                  ELSE [items EXCEPT ![i] = item]
    IN  [m EXCEPT !.transition = Put(m.transition, from_state, items2)]


\* the loop of extend that registers only the from-state of a transition
RECURSIVE ExtendLoopFromOnly(_, _, _, _)
ExtendLoopFromOnly(m, transitions, poss, i) ==
    IF i > Len(transitions) \/ m.fault # "none" THEN m
    ELSE LET t  == transitions[i]
             m1 == IF t.from \notin DOMAIN m.handler THEN AddState(m, t.from, <<>>) ELSE m
             m3 == IF m1.fault # "none" THEN m1
                   ELSE AddTransition(m1, t.from, t.to, t.check, poss[i])
         IN  ExtendLoopFromOnly(m3, transitions, poss, i + 1)

\* the loop of extend over cfg['transitions']
RECURSIVE ExtendLoop(_, _, _, _)
ExtendLoop(m, transitions, poss, i) ==
    IF i > Len(transitions) \/ m.fault # "none" THEN m
    ELSE LET t  == transitions[i]
             m1 == IF t.from \notin DOMAIN m.handler THEN AddState(m, t.from, <<>>) ELSE m
             m2 == IF m1.fault # "none" \/ t.to \in DOMAIN m1.handler THEN m1
                   ELSE AddState(m1, t.to, <<>>)
             m3 == IF m2.fault # "none" THEN m2
                   ELSE AddTransition(m2, t.from, t.to, t.check, poss[i])
         IN  ExtendLoop(m3, transitions, poss, i + 1)


\* extend that puts the machine back before its first cycle when cfg names an initial state
ExtendResetsState(m, cfg, poss) ==
    LET m1 == IF cfg.hasInitial
              THEN [m EXCEPT !.initial = cfg.initial, !.state = None] ELSE m
    IN  ExtendLoop(m1, cfg.transitions, poss, 1)

\* extend that enters a newly configured initial state at once
ExtendEnterInitial(m, cfg, poss) ==
    LET m1 == IF cfg.hasInitial
              THEN [m EXCEPT !.initial = cfg.initial, !.state = cfg.initial] ELSE m
    IN  ExtendLoop(m1, cfg.transitions, poss, 1)

\* extend(cfg)
Extend(m, cfg, poss) ==
    LET m1 == IF cfg.hasInitial THEN [m EXCEPT !.initial = cfg.initial] ELSE m
    IN  ExtendLoop(m1, cfg.transitions, poss, 1)

\* __init__(target, cfg)
Construct(target, cfg, poss) ==
    LET m1 == AddState(Blank, None, <<None, None, None>>)
        m2 == [m1 EXCEPT !.target = target]
    IN  Extend(m2, cfg, poss)


\* _raise_event that resolves a named handler on one fixed target object, whatever
\* self._target is now
RaiseEventBound(m, event, dt, hf) ==
    IF m.fault # "none" THEN m
    ELSE IF m.state \notin DOMAIN m.handler THEN [m EXCEPT !.fault = "KeyError"]
    ELSE LET handler  == m.handler[m.state][event]
             resolved == IF handler = None THEN "missing" ELSE Member("T1", handler)
             called   == resolved = "callable"
             m1 == [m EXCEPT !.events =
                       Append(@, [event |-> event, state |-> m.state, dt |-> dt,
                                  handler |-> handler, called |-> called])]
         IN  IF called /\ hf = event THEN [m1 EXCEPT !.fault = "HandlerFault"] ELSE m1

\* _raise_event that resolves a named handler as _check_transition resolves a guard
RaiseEventStrict(m, event, dt, hf) ==
    IF m.fault # "none" THEN m
    ELSE IF m.state \notin DOMAIN m.handler THEN [m EXCEPT !.fault = "KeyError"]
    ELSE LET handler  == m.handler[m.state][event]
             resolved == IF handler = None THEN "missing" ELSE Member(m.target, handler)
             called   == resolved = "callable"
             m1 == [m EXCEPT !.events =
                       Append(@, [event |-> event, state |-> m.state, dt |-> dt,
                                  handler |-> handler, called |-> called])]
         IN  IF handler # None /\ resolved = "missing"
             THEN [m1 EXCEPT !.fault = "AttributeError"]
             ELSE IF called /\ hf = event THEN [m1 EXCEPT !.fault = "HandlerFault"] ELSE m1

\* _raise_event(event, dt); hf is the event whose handler raises when invoked
RaiseEvent(m, event, dt, hf) ==
    IF m.fault # "none" THEN m
    ELSE IF m.state \notin DOMAIN m.handler THEN [m EXCEPT !.fault = "KeyError"]
    ELSE LET handler  == m.handler[m.state][event]
             resolved == IF handler = None THEN "missing" ELSE Member(m.target, handler)
             called   == resolved = "callable"
             m1 == [m EXCEPT !.events =
                       Append(@, [event |-> event, state |-> m.state, dt |-> dt,
                                  handler |-> handler, called |-> called])]
         IN  IF called /\ hf = event THEN [m1 EXCEPT !.fault = "HandlerFault"] ELSE m1

\* _check_transition that resolves a named guard as _raise_event resolves a handler
CheckTransitionLenient(target, check_func, gv) ==
    IF check_func.callable THEN
        IF gv[check_func.id] = "raise" THEN "GuardFault" ELSE gv[check_func.id]
    ELSE IF Member(target, check_func.id) = "callable"
         THEN (IF gv[check_func.id] = "raise" THEN "GuardFault" ELSE gv[check_func.id])
         ELSE "false"

\* _check_transition(check_func): "true", "false", or the exception raised
CheckTransition(target, check_func, gv) ==
    IF check_func.callable THEN
        IF gv[check_func.id] = "raise" THEN "GuardFault" ELSE gv[check_func.id]
    ELSE CASE Member(target, check_func.id) = "missing"  -> "AttributeError"
           [] Member(target, check_func.id) = "attr"     -> "TypeError"
           [] Member(target, check_func.id) = "callable" ->
                 IF gv[check_func.id] = "raise" THEN "GuardFault" ELSE gv[check_func.id]


\* the body of the loop of doProcess with the state assigned before on_exit is raised
FireExitAfter(m, target_state, dt, hf) ==
    LET m1 == [m EXCEPT !.fired = Append(@, <<m.state, target_state>>), !.state = target_state]
    IN  RaiseEvent(RaiseEvent(m1, "on_exit", dt, hf), "on_entry", dt, hf)


\* the body of the loop of doProcess that puts the old state back when on_entry raises
FireRollback(m, target_state, dt, hf) ==
    LET m1 == RaiseEvent([m EXCEPT !.fired = Append(@, <<m.state, target_state>>)],
                         "on_exit", dt, hf)
        m2 == IF m1.fault = "none" THEN [m1 EXCEPT !.state = target_state] ELSE m1
        m3 == RaiseEvent(m2, "on_entry", dt, hf)
    IN  IF m1.fault = "none" /\ m3.fault # "none" THEN [m3 EXCEPT !.state = m.state] ELSE m3

\* the body of the loop of doProcess with on_entry raised before the state is assigned
FireEntryFirst(m, target_state, dt, hf) ==
    LET m1 == RaiseEvent([m EXCEPT !.fired = Append(@, <<m.state, target_state>>)],
                         "on_exit", dt, hf)
        m2 == RaiseEvent(m1, "on_entry", dt, hf)
    IN  IF m2.fault = "none" THEN [m2 EXCEPT !.state = target_state] ELSE m2

\* the body of the loop of doProcess once a check returned true
Fire(m, target_state, dt, hf) ==
    LET m1 == RaiseEvent([m EXCEPT !.fired = Append(@, <<m.state, target_state>>)],
                         "on_exit", dt, hf)
        m2 == IF m1.fault = "none" THEN [m1 EXCEPT !.state = target_state] ELSE m1
    IN  RaiseEvent(m2, "on_entry", dt, hf)


\* the loop of doProcess with a check that raises taken as one that returns False
RECURSIVE TransitionLoopSwallow(_, _, _, _, _, _)
TransitionLoopSwallow(m, items, i, dt, gv, hf) ==
    IF i > Len(items) THEN m
    ELSE LET r  == CheckTransition(m.target, items[i].check, gv)
             m1 == [m EXCEPT !.evaluated =
                       Append(@, [to |-> items[i].to, check |-> items[i].check, result |-> r])]
         IN  CASE r = "true"  -> Fire(m1, items[i].to, dt, hf)
               [] OTHER       -> TransitionLoopSwallow(m1, items, i + 1, dt, gv, hf)

\* the loop of doProcess without its break: the checks after a firing one are made too
RECURSIVE TransitionLoopNoBreak(_, _, _, _, _, _)
TransitionLoopNoBreak(m, items, i, dt, gv, hf) ==
    IF i > Len(items) \/ m.fault # "none" THEN m
    ELSE LET r  == CheckTransition(m.target, items[i].check, gv)
             m1 == [m EXCEPT !.evaluated =
                       Append(@, [to |-> items[i].to, check |-> items[i].check, result |-> r])]
         IN  CASE r = "true"  ->
                    TransitionLoopNoBreak(Fire(m1, items[i].to, dt, hf), items, i + 1, dt, gv, hf)
               [] r = "false" -> TransitionLoopNoBreak(m1, items, i + 1, dt, gv, hf)
               [] OTHER       -> [m1 EXCEPT !.fault = r]

\* the loop of doProcess over self._transition[self._state]
RECURSIVE TransitionLoop(_, _, _, _, _, _)
TransitionLoop(m, items, i, dt, gv, hf) ==
    IF i > Len(items) THEN m
    ELSE LET r  == CheckTransition(m.target, items[i].check, gv)
             m1 == [m EXCEPT !.evaluated =
                       Append(@, [to |-> items[i].to, check |-> items[i].check, result |-> r])]
         IN  CASE r = "true"  -> Fire(m1, items[i].to, dt, hf)
               [] r = "false" -> TransitionLoop(m1, items, i + 1, dt, gv, hf)
               [] OTHER       -> [m1 EXCEPT !.fault = r]

\* the first cycle of doProcess
FirstCycle(m, hf) ==
    LET m1 == [m EXCEPT !.state = m.initial]
    IN  RaiseEvent(RaiseEvent(m1, "on_entry", 0, hf), "in_state", 0, hf)



\* doProcess that enters the initial state again from a state without outgoing transitions
DoProcessFallback(m, dt, gv, hf) ==
    IF m.state = None \/ m.state \notin DOMAIN m.transition THEN FirstCycle(m, hf)
    ELSE RaiseEvent(TransitionLoop(m, m.transition[m.state], 1, dt, gv, hf),
                    "in_state", dt, hf)

\* doProcess that gives a state without outgoing transitions an empty entry in
\* the transition mapping
DoProcessAutoCreate(m, dt, gv, hf) ==
    IF m.state = None THEN FirstCycle(m, hf)
    ELSE LET m1 == IF m.state \in DOMAIN m.transition THEN m
                   ELSE [m EXCEPT !.transition = Put(m.transition, m.state, <<>>)]
         IN  RaiseEvent(TransitionLoop(m1, m1.transition[m1.state], 1, dt, gv, hf),
                        "in_state", dt, hf)

\* doProcess(dt)
DoProcess(m, dt, gv, hf) ==
    IF m.state = None THEN FirstCycle(m, hf)
    ELSE IF m.state \notin DOMAIN m.transition THEN [m EXCEPT !.fault = "KeyError"]
    ELSE RaiseEvent(TransitionLoop(m, m.transition[m.state], 1, dt, gv, hf),
                    "in_state", dt, hf)

\* reset that enters the initial state itself
DoResetToInitial(m) == [m EXCEPT !.state = m.initial]

\* reset()
DoReset(m) == [m EXCEPT !.state = None]

\* the target setter
SetTarget(m, value) == [m EXCEPT !.target = value]

\* the state property
State == _state

\* number of transitions in a transition mapping
NTransitions(transition) ==
    Cardinality({ p \in (DOMAIN transition) \X (1..Cardinality(Pairs)) :
                    p[2] <= Len(transition[p[1]]) })

\* the topology of m is within the bound of the model
Bounded(m) == NTransitions(m.transition) <= MaxTransitions

-----------------------------------------------------------------------------
(* The state machine as a transition system *)

\* self, as a machine record with empty logs
Self ==
    [Blank EXCEPT !.target = _target, !.initial = _initial, !.state = _state,
                  !.handler = _handler, !.transition = _transition]

NoGuards == [k \in GuardKeys |-> "false"]
NoCfg == [hasInitial |-> FALSE, initial |-> "Idle", transitions |-> <<>>]

\* the fields of self and the logs after a call that ended with machine record m
Becomes(m) ==
    /\ _target' = m.target
    /\ _initial' = m.initial
    /\ _state' = m.state
    /\ _handler' = m.handler
    /\ _transition' = m.transition
    /\ events' = m.events
    /\ evaluated' = m.evaluated
    /\ fired' = m.fired
    /\ fault' = m.fault

Init ==
    \E target \in Targets, cfg \in InitCfgs :
      \E poss \in [1..Len(cfg.transitions) -> Positions] :
        LET m == Construct(target, cfg, poss)
        IN  /\ Bounded(m)
            /\ _target = m.target
            /\ _initial = m.initial
            /\ _state = m.state
            /\ _handler = m.handler
            /\ _transition = m.transition
            /\ events = m.events
            /\ evaluated = m.evaluated
            /\ fired = m.fired
            /\ fault = m.fault
            /\ op = "init"
            /\ armed = "init"
            /\ pre_armed = "no"
            /\ pre = None
            /\ pre_target = None
            /\ entered = None
            /\ in_dt = 0
            /\ in_gv = NoGuards
            /\ in_cfg = cfg

ExtendCall ==
    /\ \E cfg \in Cfgs :
        \E poss \in [1..Len(cfg.transitions) -> Positions] :
          \* a position past the end of the dict is the same input as the end
          /\ \A i \in 1..Len(cfg.transitions) : poss[i] <= NTransitions(_transition) + i
          /\ \E m \in {Extend(Self, cfg, poss)} : Bounded(m) /\ Becomes(m)
          /\ in_cfg' = cfg
    /\ op' = "extend"
    /\ armed' = armed /\ pre_armed' = "no"
    /\ pre' = _state /\ pre_target' = _target
    /\ entered' = entered
    /\ in_dt' = 0 /\ in_gv' = NoGuards

ProcessCall ==
    /\ \E dt \in Dts, gv \in GuardOutcomes, hf \in HandlerFaults :
          /\ \E m \in {DoProcess(Self, dt, gv, hf)} :
                \* a raising handler that the cycle does not invoke is the same input as "none"
                /\ hf = "none" \/ m.fault = "HandlerFault"
                /\ Becomes(m)
          /\ in_dt' = dt /\ in_gv' = gv
    /\ op' = "process"
    /\ armed' = "no" /\ pre_armed' = armed
    /\ pre' = _state /\ pre_target' = _target
    /\ entered' = (IF _state = None THEN _initial ELSE entered)
    /\ in_cfg' = NoCfg

ResetCall ==
    /\ Becomes(DoReset(Self))
    /\ op' = "reset"
    /\ armed' = "reset" /\ pre_armed' = "no"
    /\ pre' = _state /\ pre_target' = _target
    /\ entered' = None
    /\ in_dt' = 0 /\ in_gv' = NoGuards /\ in_cfg' = NoCfg

TargetCall ==
    /\ \E value \in Targets : Becomes(SetTarget(Self, value))
    /\ op' = "target"
    /\ armed' = armed /\ pre_armed' = "no"
    /\ pre' = _state /\ pre_target' = _target
    /\ entered' = entered
    /\ in_dt' = 0 /\ in_gv' = NoGuards /\ in_cfg' = NoCfg

Next == ExtendCall \/ ProcessCall \/ ResetCall \/ TargetCall

Spec == Init /\ [][Next]_vars

-----------------------------------------------------------------------------
(* What the last process call raised, guard outcomes, fresh machines *)

\* the _raise_event calls of the last cycle as (event, state, dt)
Raised == [i \in 1..Len(events) |-> <<events[i].event, events[i].state, events[i].dt>>]

\* the exceptions that come from outside the engine: a handler or a guard that
\* raises, a named guard the target does not have or cannot call
OutsideFaults == {"HandlerFault", "GuardFault", "AttributeError", "TypeError"}

\* what invoking the stored guard `check` gives in the last cycle, written from
\* the inputs of the cycle: the target's members and the guards' behaviour
WouldBe(check) ==
    LET kind == IF check.callable THEN "callable" ELSE Member(_target, check.id)
    IN  IF kind = "callable"
        THEN (IF in_gv[check.id] = "raise" THEN "fault" ELSE in_gv[check.id])
        ELSE "fault"

\* the outgoing transitions of the state the last cycle started in
Outgoing == IF pre \in DOMAIN _transition THEN _transition[pre] ELSE <<>>

\* the first outgoing transition, in iteration order, whose guard does not return false
FirstNonFalse ==
    IF \E k \in 1..Len(Outgoing) : WouldBe(Outgoing[k].check) # "false"
    THEN CHOOSE k \in 1..Len(Outgoing) :
            /\ WouldBe(Outgoing[k].check) # "false"
            /\ \A j \in 1..(k - 1) : WouldBe(Outgoing[j].check) = "false"
    ELSE 0

\* the (from, position) slots of the transition mapping
Slots == { p \in (DOMAIN _transition) \X (1..Cardinality(Pairs)) :
             p[2] <= Len(_transition[p[1]]) }

\* the condition function a cfg must name for extend to store `check`
CfgCheck(check) ==
    IF check.callable THEN check
    ELSE CHOOSE c \in Checks : ~c.callable /\ Prefix("transition") \o c.id = check.id

RECURSIVE TriplesOf(_)
TriplesOf(slots) ==
    IF slots = {} THEN <<>>
    ELSE LET p == CHOOSE x \in slots : TRUE
             item == _transition[p[1]][p[2]]
         IN  <<[from |-> p[1], to |-> item.to, check |-> CfgCheck(item.check)]>>
             \o TriplesOf(slots \ {p})

\* a machine constructed anew with the configuration the machine has now
Fresh ==
    LET transitions == TriplesOf(Slots)
    IN  Construct(_target,
                  [hasInitial |-> _initial # None, initial |-> _initial,
                   transitions |-> transitions],
                  [i \in 1..Len(transitions) |-> 1])

\* the last cycle went as the first cycle of the fresh machine goes, whatever
\* dt and the guards are, the handlers behaving the same
SameAsFresh ==
    \E hf \in HandlerFaults : \A dt \in Dts, gv \in GuardOutcomes :
        LET r == DoProcess(Fresh, dt, gv, hf)
        IN  /\ r.state = _state
            /\ r.events = events
            /\ r.evaluated = evaluated
            /\ r.fired = fired
            /\ r.fault = fault

-----------------------------------------------------------------------------
(* Claims *)

\* C1: the first process call after construction or after reset sets the state to
\* the configured initial state and raises exactly on_entry(0) then in_state(0) on
\* it, evaluating no guard.  Stated for the cycles in which no handler raises.
C1_FirstCycleProtocol ==
    (op = "process" /\ pre_armed # "no" /\ fault # "HandlerFault") =>
        /\ _state = _initial
        /\ Raised = << <<"on_entry", _initial, 0>>, <<"in_state", _initial, 0>> >>
        /\ evaluated = <<>>
        /\ fault = "none"

\* C2: in a cycle after the first at most one transition fires and the state
\* changes at most once; the guards are evaluated in the iteration order of the
\* outgoing transitions up to the first that does not return false; when that
\* guard returns true (so also when two or more guards are true) its transition
\* is the one that fires, and no further guard is evaluated.
C2_AtMostOneTransition ==
    (op = "process" /\ pre # None) =>
        /\ Len(fired) <= 1
        /\ (_state # pre => fired = << <<pre, _state>> >>)
        /\ Len(evaluated) = (IF FirstNonFalse = 0 THEN Len(Outgoing) ELSE FirstNonFalse)
        /\ \A i \in 1..Len(evaluated) :
              /\ evaluated[i].to = Outgoing[i].to
              /\ evaluated[i].check = Outgoing[i].check
        /\ (FirstNonFalse = 0 => fired = <<>> /\ _state = pre)
        /\ (FirstNonFalse # 0 /\ WouldBe(Outgoing[FirstNonFalse].check) = "true") =>
              /\ fired = << <<pre, Outgoing[FirstNonFalse].to>> >>
              /\ (fault = "none" => _state = Outgoing[FirstNonFalse].to)

\* C2 witness: two outgoing guards are true in a cycle, the first in iteration
\* order fired and the second was not evaluated
C2_Witness ==
    /\ op = "process" /\ pre # None /\ fault = "none"
    /\ Len(Outgoing) = 2
    /\ WouldBe(Outgoing[1].check) = "true" /\ WouldBe(Outgoing[2].check) = "true"
    /\ Outgoing[1].check # Outgoing[2].check
    /\ Len(evaluated) = 1
    /\ _state = Outgoing[1].to

\* C3: every process call ends with exactly one in_state call on the current state,
\* with the cycle's dt, as its last action, also for a state without outgoing
\* transition.  Stated for the cycles after the first that start in a state of
\* the handler mapping and in which no handler and no guard raises.
C3_EndsWithInState ==
    (op = "process" /\ pre # None /\ pre \in DOMAIN _handler /\ fault \notin OutsideFaults) =>
        /\ Len(events) > 0
        /\ Raised[Len(events)] = <<"in_state", _state, in_dt>>
        /\ Cardinality({ i \in 1..Len(events) : events[i].event = "in_state" }) = 1
        /\ fault = "none"

\* the events of a cycle in which the transition from S to T fires
FiringEvents(S, T, dt) == << <<"on_exit", S, dt>>, <<"on_entry", T, dt>>, <<"in_state", T, dt>> >>

\* C4 as stated: when a guard leaving S fires toward T the cycle's events are
\* on_exit(S, dt), on_entry(T, dt), in_state(T, dt) and the state is T
C4_FiringCycleAlways ==
    (op = "process" /\ fired # <<>>) =>
        /\ Raised = FiringEvents(fired[1][1], fired[1][2], in_dt)
        /\ _state = fired[1][2]

\* C4 amended: when a guard leaving S fires toward T and no handler invoked in
\* the cycle raises, the cycle's events are on_exit(S, dt), on_entry(T, dt),
\* in_state(T, dt), no others, and the state is T; when a handler raises, the
\* cycle ends at that handler's event, and the state is T unless it was on_exit
C4_FiringCycle ==
    (op = "process" /\ fired # <<>>) =>
        LET S == fired[1][1]
            T == fired[1][2]
        IN  /\ S = pre
            /\ fault \in {"none", "HandlerFault"}
            /\ Len(events) \in 1..3
            /\ Raised = SubSeq(FiringEvents(S, T, in_dt), 1, Len(events))
            /\ (fault = "none" => Len(events) = 3 /\ _state = T)
            /\ (fault = "HandlerFault" =>
                   /\ events[Len(events)].called
                   /\ _state = (IF Len(events) = 1 THEN S ELSE T))

\* C4 witness: Scenario A, the transition Idle -> A fired and the three events were raised
C4_Witness ==
    /\ op = "process" /\ fault = "none"
    /\ fired = << <<"Idle", "A">> >>
    /\ Raised = FiringEvents("Idle", "A", in_dt)
    /\ in_dt # 0
    /\ _state = "A"

C6_UninitializedUntilProcess == armed # "no" => State = None

\* C6 witness: after a reset, an extend that names an initial state left the state
\* Uninitialized
C6_Witness ==
    /\ armed = "reset" /\ op = "extend" /\ in_cfg.hasInitial
    /\ State = None

\* a binding that is absent or does not resolve to a callable member of the target
Unbound(handler) == handler = None \/ Member(_target, handler) # "callable"

\* C7: a handler that is absent or does not resolve to a callable member of the
\* target is skipped without a fault and the cycle goes on: after a skipped on_exit
\* the state is the to-state and on_entry is raised on it, after a skipped on_entry
\* in_state is raised, and a skipped in_state ends a cycle that returns normally
C7_SkippedHandlers ==
    op = "process" =>
        \A i \in 1..Len(events) :
            Unbound(events[i].handler) =>
                /\ ~events[i].called
                /\ (fault # "none" => i < Len(events))
                /\ events[i].event = "on_exit" =>
                      /\ i < Len(events)
                      /\ Raised[i + 1] = <<"on_entry", fired[1][2], events[i].dt>>
                      /\ _state = fired[1][2]
                /\ events[i].event = "on_entry" =>
                      /\ i < Len(events)
                      /\ Raised[i + 1] = <<"in_state", events[i].state, events[i].dt>>
                /\ events[i].event = "in_state" => i = Len(events)

\* C7 witness: the transition from A to Uninitialized fired; on_exit of A did not
\* resolve, the handlers of Uninitialized are absent, and the cycle returned
C7_Witness ==
    /\ op = "process" /\ fault = "none"
    /\ fired = << <<"A", None>> >>
    /\ _state = None
    /\ Len(events) = 3
    /\ events[1].handler # None /\ events[2].handler = None
    /\ \A i \in 1..3 : ~events[i].called

\* a named guard that the target has no member for
Unresolved(check) == ~check.callable /\ Member(_target, check.id) = "missing"

\* C8: a named guard that cannot be resolved on the target when it is evaluated
\* ends the process call with a fault, in every call that evaluates it; the state
\* is the state before the call and nothing was raised
C8_UnresolvedGuardFaults ==
    op = "process" =>
        \A i \in 1..Len(evaluated) :
            Unresolved(evaluated[i].check) =>
                /\ i = Len(evaluated)
                /\ evaluated[i].result = "AttributeError"
                /\ fault = "AttributeError"
                /\ _state = pre
                /\ fired = <<>>
                /\ events = <<>>

\* C8 witness: a cycle evaluated a named guard the target does not have
C8_Witness ==
    /\ op = "process" /\ pre = "Idle"
    /\ evaluated # <<>>
    /\ Unresolved(evaluated[Len(evaluated)].check)
    /\ fault = "AttributeError"

\* C9: in process a named guard that does not resolve is skipped like an absent
\* binding: it counts as false, no fault is raised, and the cycle goes on to the
\* remaining guards and the final in_state
C9_UnresolvedGuardSkipped ==
    op = "process" =>
        \A i \in 1..Len(evaluated) :
            Unresolved(evaluated[i].check) =>
                /\ evaluated[i].result = "false"
                /\ fault # "AttributeError"
                /\ events # <<>>
                /\ events[Len(events)].event = "in_state"

\* the guard extend stores for a condition function of a cfg
StoredCheck(c) == IF c.callable THEN c ELSE [callable |-> FALSE, id |-> "_check_" \o c.id]

\* the positions of the pair (from, to) in a transition mapping
Entries(transition, from, to) ==
    IF from \in DOMAIN transition
    THEN { i \in 1..Len(transition[from]) : transition[from][i].to = to }
    ELSE {}

\* the pair (from, to) is named by a transition of cfg
NamedIn(cfg, from, to) ==
    \E k \in 1..Len(cfg.transitions) :
        cfg.transitions[k].from = from /\ cfg.transitions[k].to = to

\* the process call of machine m with these inputs takes the transition at
\* position k of the current state, and returns
TakesIt(m, k, dt, gv) ==
    LET items == m.transition[m.state]
        r     == DoProcess(m, dt, gv, "none")
    IN  /\ r.fault = "none"
        /\ r.fired = << <<m.state, items[k].to>> >>
        /\ r.state = items[k].to

\* what extend(cfg) does to the transition mapping
C10_ExtendPost ==
    LET cfg == in_cfg'
    IN  /\ \A k \in 1..Len(cfg.transitions) :
              LET t == cfg.transitions[k]
                  at == Entries(_transition', t.from, t.to)
              IN  /\ Cardinality(at) = 1
                  /\ \A i \in at :
                        (\A l \in (k + 1)..Len(cfg.transitions) :
                            ~(cfg.transitions[l].from = t.from /\ cfg.transitions[l].to = t.to))
                        => _transition'[t.from][i].check = StoredCheck(t.check)
        /\ \A from \in DOMAIN _transition : \A i \in 1..Len(_transition[from]) :
              LET item == _transition[from][i]
              IN  /\ from \in DOMAIN _transition'
                  /\ Cardinality(Entries(_transition', from, item.to)) = 1
                  /\ ~NamedIn(cfg, from, item.to) =>
                        \E j \in 1..Len(_transition'[from]) : _transition'[from][j] = item
        /\ \A from \in DOMAIN _transition' : \A j \in 1..Len(_transition'[from]) :
              \/ NamedIn(cfg, from, _transition'[from][j].to)
              \/ /\ from \in DOMAIN _transition
                 /\ \E i \in 1..Len(_transition[from]) : _transition[from][i] = _transition'[from][j]

\* after extend(cfg), in the from-state of a transition of cfg, a process call
\* takes that transition whenever its guard is the first in iteration order to
\* return true and no handler raises
C10_CanTake ==
    op = "extend" =>
        \A k \in 1..Len(in_cfg.transitions) :
            LET t == in_cfg.transitions[k]
            IN  (_state = t.from /\ t.from # None) =>
                    \A i \in Entries(_transition, t.from, t.to) :
                    \A dt \in Dts, gv \in GuardOutcomes :
                        ( /\ CheckTransition(_target, _transition[t.from][i].check, gv) = "true"
                          /\ \A j \in 1..(i - 1) :
                               CheckTransition(_target, _transition[t.from][j].check, gv) = "false" )
                        => TakesIt(Self, i, dt, gv)

\* C10: extend is additive and overwrites only the pairs it names.  After
\* extend(cfg) every pair named in cfg has exactly one transition, with the guard
\* of cfg; every transition of a pair that cfg does not name is kept with its
\* guard; no other pair appears; and when the machine is in the from-state of a
\* transition of cfg, the next process call takes that transition whenever its
\* guard is the first in iteration order to return true
C10_ExtendAdditive == []C10_CanTake /\ [][op' = "extend" => C10_ExtendPost]_vars

\* C10 witness: extend added a second transition, leaving the current state, and
\* a process call made now takes it
C10_Witness ==
    /\ op = "extend"
    /\ Len(in_cfg.transitions) = 1
    /\ NTransitions(_transition) = 2
    /\ LET t == in_cfg.transitions[1]
       IN  /\ _state = t.from
           /\ Len(_transition[t.from]) = 2
           /\ \E i \in Entries(_transition, t.from, t.to) :
                 \E dt \in Dts, gv \in GuardOutcomes : TakesIt(Self, i, dt, gv)


\* the to-states of the transitions whose guard was evaluated in the last cycle
\* and did not return true
NotTaken == { evaluated[j].to : j \in { k \in 1..Len(evaluated) : evaluated[k].result # "true" } }

\* C11: the handlers of a cycle are raised on the state that is current at the
\* moment of the event, with the binding the handler mapping has for that state:
\* on_exit on the state being left, on_entry and in_state on the state entered or
\* occupied, on_entry only in a first cycle or after the on_exit of a firing
\* transition; no event goes to the to-state of a guard that did not fire
C11_HandlersOfCurrentState ==
    op = "process" =>
        /\ \A i \in 1..Len(events) :
              /\ events[i].state \in DOMAIN _handler
              /\ events[i].handler = _handler[events[i].state][events[i].event]
              /\ events[i].event = "on_exit" =>
                    i = 1 /\ fired # <<>> /\ events[i].state = pre /\ pre = fired[1][1]
              /\ events[i].event = "on_entry" =>
                    /\ events[i].state = _state
                    /\ pre = None \/ (fired # <<>> /\ _state = fired[1][2])
              /\ events[i].event = "in_state" => events[i].state = _state
              /\ events[i].state \in NotTaken =>
                    \/ events[i].state = pre
                    \/ fired # <<>> /\ events[i].state = fired[1][2]
        /\ (pre # None /\ fired = <<>>) => \A i \in 1..Len(events) : events[i].state = pre

\* C11 witness: Scenario B, the guard toward A returned false and the guard toward
\* B true; the state moved from Idle to B and no handler of A was raised
C11_Witness ==
    /\ op = "process" /\ pre = "Idle" /\ fault = "none"
    /\ Len(evaluated) = 2
    /\ evaluated[1].to = "A" /\ evaluated[1].result = "false"
    /\ evaluated[2].to = "B" /\ evaluated[2].result = "true"
    /\ _state = "B"
    /\ Raised = FiringEvents("Idle", "B", in_dt)
    /\ events[1].called /\ events[3].called
    /\ \A i \in 1..Len(events) : events[i].state # "A"


\* the handler of event record e was looked up on target t: it was called exactly
\* when the binding names a callable member of t
HandlerOn(t, e) == e.called <=> (e.handler # None /\ Member(t, e.handler) = "callable")

\* the guard of evaluation record e was looked up on target t, the guards
\* behaving as gv says: a named guard gave what the member of t of that name gives
GuardOn(t, e, gv) ==
    e.check.callable \/
        e.result = (CASE Member(t, e.check.id) = "missing"  -> "AttributeError"
                      [] Member(t, e.check.id) = "attr"     -> "TypeError"
                      [] Member(t, e.check.id) = "callable" ->
                            IF gv[e.check.id] = "raise" THEN "GuardFault" ELSE gv[e.check.id])

\* every handler call and named guard evaluation logged in m went to target t
AllOn(t, m, gv) ==
    /\ \A i \in 1..Len(m.events) : HandlerOn(t, m.events[i])
    /\ \A i \in 1..Len(m.evaluated) : GuardOn(t, m.evaluated[i], gv)

\* C12: named handlers and guards are resolved at each invocation on the target
\* that is current then.  Every handler call and named guard evaluation of a
\* cycle goes to the target the machine has in that cycle; and after the target
\* setter, whatever the target was before, every handler call and named guard
\* evaluation of the next cycle goes to the target that was set
C12_LateBinding ==
    /\ op = "process" => AllOn(_target, [events |-> events, evaluated |-> evaluated], in_gv)
    /\ op = "target" =>
          \A dt \in Dts, gv \in GuardOutcomes, hf \in HandlerFaults :
              AllOn(_target, DoProcess(Self, dt, gv, hf), gv)

\* C12 witness: the target was swapped for one with other members, and the next
\* cycle evaluates a named guard that the old target does not have, fires its
\* transition and calls a handler that the old target does not have
C12_Witness ==
    /\ op = "target" /\ pre_target # _target /\ _state # None
    /\ \E dt \in Dts, gv \in GuardOutcomes :
          LET new == DoProcess(Self, dt, gv, "none")
              old == DoProcess([Self EXCEPT !.target = pre_target], dt, gv, "none")
          IN  /\ new.fault = "none" /\ new.fired # <<>>
              /\ ~new.evaluated[Len(new.evaluated)].check.callable
              /\ old.fault = "AttributeError"
              /\ \E i \in 1..Len(new.events) :
                    /\ new.events[i].called
                    /\ Member(pre_target, new.events[i].handler) # "callable"


\* the bindings _add_state(state) gives a state: the names derived from the event
\* and the state
DefaultBindings(state) == [e \in Events |-> Prefix(e) \o state]

\* the bindings of the None state
NullBindings == [e \in Events |-> None]

\* every from-state and to-state of the transition mapping has an entry in the
\* handler mapping, and every state but None has the name-derived bindings
C13_Registered ==
    /\ \A from \in DOMAIN _transition :
          /\ from \in DOMAIN _handler
          /\ \A i \in 1..Len(_transition[from]) : _transition[from][i].to \in DOMAIN _handler
    /\ \A s \in DOMAIN _handler :
          /\ DOMAIN _handler[s] = Events
          /\ s # None => \A e \in Events : _handler[s][e] = DefaultBindings(s)[e]

\* a state that has an entry in the handler mapping keeps it, with its bindings
C13_Keeps == \A s \in DOMAIN _handler : s \in DOMAIN _handler' /\ _handler'[s] = _handler[s]

\* C13: after construction and after any sequence of extend calls every state that
\* is the from-state or the to-state of a transition of the transition mapping has
\* an entry in the handler mapping; a state created for a transition has the
\* name-derived bindings, and in every step a state that has an entry keeps its
\* bindings
C13_Topology == []C13_Registered /\ [][C13_Keeps]_vars

\* C13 witness: an extend named the transition from A, which no other transition
\* names, to the None state, which has an entry since construction: A got the
\* name-derived bindings and None kept its null bindings
C13_Witness ==
    /\ op = "extend"
    /\ in_cfg.transitions # <<>>
    /\ in_cfg.transitions[1].from = "A" /\ in_cfg.transitions[1].to = None
    /\ \A from \in DOMAIN _transition : \A i \in 1..Len(_transition[from]) :
          /\ _transition[from][i].to # "A"
          /\ from = "A" => _transition[from][i].to = None
    /\ "Idle" \in DOMAIN _transition
    /\ "A" \in DOMAIN _handler
    /\ _handler["A"]["on_entry"] = "_on_entry_A"
    /\ \A e \in Events : _handler[None][e] = None


\* C14: in every reachable configuration the None state (Uninitialized) has an
\* entry in the handler mapping whose three bindings are null, has no entry in the
\* transition mapping as a from-state, and is the to-state of no transition
C14_SentinelInvariant ==
    /\ None \in DOMAIN _handler
    /\ \A e \in Events : _handler[None][e] = None
    /\ None \notin DOMAIN _transition
    /\ \A from \in DOMAIN _transition : \A i \in 1..Len(_transition[from]) :
          _transition[from][i].to # None


\* the exceptions that leave _check_transition
GuardFaults == {"GuardFault", "AttributeError", "TypeError"}

\* C15: a fault raised by a guard invocation, or by the on_exit handler of a firing
\* transition, propagates out of process and leaves the state as it was before the
\* call; no on_entry and no in_state is raised in that cycle; the guard, or the
\* handler, is invoked once and the guards after it are not evaluated
C15_GuardOrExitFault ==
    op = "process" =>
        /\ (pre # None /\ FirstNonFalse # 0 /\ WouldBe(Outgoing[FirstNonFalse].check) = "fault") =>
              /\ fault \in GuardFaults
              /\ fault = evaluated[Len(evaluated)].result
              /\ Len(evaluated) = FirstNonFalse
              /\ _state = pre
              /\ fired = <<>>
              /\ events = <<>>
        /\ fault \in GuardFaults =>
              /\ pre # None /\ FirstNonFalse # 0
              /\ WouldBe(Outgoing[FirstNonFalse].check) = "fault"
        /\ (fault = "HandlerFault" /\ events[Len(events)].event = "on_exit") =>
              /\ _state = pre
              /\ fired = << <<pre, evaluated[Len(evaluated)].to>> >>
              /\ Len(events) = 1
              /\ events[1].state = pre /\ events[1].called

\* C15 witness: the first guard returned false and the second raised; the cycle
\* ended with that fault in the state it started in, and no event was raised
C15_Witness ==
    /\ op = "process" /\ fault = "GuardFault"
    /\ pre = "Idle" /\ _state = "Idle"
    /\ Len(evaluated) = 2
    /\ evaluated[1].result = "false" /\ evaluated[2].result = "GuardFault"
    /\ events = <<>>


\* the guard evaluations logged in m are those of the first outgoing transitions
\* of state s, in iteration order
EvaluatesFrom(s, m) ==
    IF s \in DOMAIN _transition
    THEN /\ Len(m.evaluated) \in 1..Len(_transition[s])
         /\ \A i \in 1..Len(m.evaluated) :
               /\ m.evaluated[i].to = _transition[s][i].to
               /\ m.evaluated[i].check = _transition[s][i].check
    ELSE m.evaluated = <<>>

\* C16: a fault raised by the on_entry handler of a firing transition propagates
\* out of process with the state already set to the to-state of the transition;
\* the in_state of that cycle is not raised; the next process call evaluates the
\* outgoing guards of the new state
C16_EntryFault ==
    (op = "process" /\ fired # <<>> /\ fault = "HandlerFault"
        /\ events[Len(events)].event = "on_entry") =>
        /\ _state = fired[1][2]
        /\ _state # pre
        /\ Raised = << <<"on_exit", pre, in_dt>>, <<"on_entry", _state, in_dt>> >>
        /\ \A dt \in Dts, gv \in GuardOutcomes, hf \in HandlerFaults :
              EvaluatesFrom(_state, DoProcess(Self, dt, gv, hf))

\* C16 witness: the transition from Idle to A fired and on_entry of A raised; the
\* machine is in A, and a process call made now evaluates the guard from A to Idle
\* and takes that transition
C16_Witness ==
    /\ op = "process" /\ fault = "HandlerFault"
    /\ fired = << <<"Idle", "A">> >>
    /\ events[Len(events)].event = "on_entry"
    /\ _state = "A"
    /\ "A" \in DOMAIN _transition
    /\ \E dt \in Dts, gv \in GuardOutcomes :
          LET r == DoProcess(Self, dt, gv, "none")
          IN  r.fired = << <<"A", "Idle">> >> /\ r.state = "Idle" /\ r.fault = "none"


\* the to-states of the outgoing transitions of state s
ToStates(s) ==
    IF s \in DOMAIN _transition
    THEN { _transition[s][i].to : i \in 1..Len(_transition[s]) }
    ELSE {}

\* C17: the state is changed only by process and reset.  extend(cfg), also one
\* that names an initial state, and the target setter leave the state as it was;
\* an initial state named by extend is stored, and it takes effect at the next
\* first cycle only: a process call made while the state is None enters it, a
\* process call made in another state stays there or takes an outgoing
\* transition, and after a reset the process call enters it
C17_StateFrame ==
    /\ op \in {"extend", "target"} => _state = pre
    /\ (op = "process" /\ pre = None) => _state = _initial
    /\ (op = "extend" /\ in_cfg.hasInitial) =>
          /\ _initial = in_cfg.initial
          /\ \A dt \in Dts, gv \in GuardOutcomes, hf \in HandlerFaults :
                /\ DoProcess(DoReset(Self), dt, gv, hf).state = in_cfg.initial
                /\ _state = None => DoProcess(Self, dt, gv, hf).state = in_cfg.initial
                /\ _state # None =>
                      DoProcess(Self, dt, gv, hf).state \in {_state} \cup ToStates(_state)

\* C17 witness: the machine entered Idle in its first cycle; an extend then named
\* B as the initial state: the state is still Idle, no process call made now
\* enters B, and after a reset the process call enters B
C17_Witness ==
    /\ op = "extend" /\ in_cfg.hasInitial
    /\ entered = "Idle" /\ pre = "Idle" /\ _state = "Idle"
    /\ _initial = "B"
    /\ "Idle" \in DOMAIN _transition
    /\ \A dt \in Dts, gv \in GuardOutcomes : DoProcess(Self, dt, gv, "none").state # "B"
    /\ DoProcess(DoReset(Self), 1, NoGuards, "none").state = "B"


\* one step keeps every state of the handler mapping and every (from, to) pair of
\* the transition mapping, and a step that is not an extend leaves the handler
\* mapping, the transition mapping and the initial state as they are
C18_Step ==
    /\ \A s \in DOMAIN _handler : s \in DOMAIN _handler'
    /\ \A from \in DOMAIN _transition :
          /\ from \in DOMAIN _transition'
          /\ \A i \in 1..Len(_transition[from]) :
                Entries(_transition', from, _transition[from][i].to) # {}
    /\ op' \in {"process", "reset", "target"} =>
          /\ _handler' = _handler
          /\ _transition' = _transition
          /\ _initial' = _initial

\* C18: the topology only grows and only through extend: no operation removes a
\* state from the handler mapping or a (from, to) pair from the transition
\* mapping, and process and reset leave the handler mapping, the transition
\* mapping and the initial state unchanged, also in a cycle that ends in a fault
C18_TopologyGrows == [][C18_Step]_vars

\* C18 witness: a process call ended in a fault because the state it entered has
\* no entry in the topology; the two transitions of the topology are still there
C18_Witness ==
    /\ op = "process" /\ fault = "KeyError"
    /\ _state \notin DOMAIN _handler /\ _state \notin DOMAIN _transition
    /\ NTransitions(_transition) = 2


\* what a cycle after the first does when no guard fires: each outgoing guard
\* evaluated once, in order, with result false; no transition; in_state only
QuietCycle ==
    /\ Len(evaluated) = Len(Outgoing)
    /\ \A i \in 1..Len(evaluated) :
          /\ evaluated[i].to = Outgoing[i].to
          /\ evaluated[i].check = Outgoing[i].check
          /\ evaluated[i].result = "false"
    /\ _state = pre
    /\ fired = <<>>
    /\ Raised = << <<"in_state", pre, in_dt>> >>

\* C19: in a cycle after the first in which every outgoing guard of the current
\* state returns false, each of those guards is evaluated exactly once, the state
\* is unchanged, neither on_exit nor on_entry is raised, and the only event is
\* in_state of the unchanged state with the cycle's dt; no guard of a transition
\* leaving another state is evaluated.  Stated for the cycles that start in a
\* state of the handler mapping.
C19_AllGuardsFalse ==
    ( /\ op = "process" /\ pre # None /\ pre \in DOMAIN _handler
      /\ \A k \in 1..Len(Outgoing) : WouldBe(Outgoing[k].check) = "false" )
    => QuietCycle


\* the to-states of all transitions of the transition mapping
AllToStates == UNION { ToStates(s) : s \in DOMAIN _transition }

\* C20: after any sequence of construct, extend, target, reset and process
\* operations the state is None, or the initial state that was configured when
\* the first cycle since construction or the last reset ran, or the to-state of a
\* transition of the transition mapping; a process call sets the state to the
\* configured initial state (first cycle) or to the to-state of an outgoing
\* transition of the state it started in, or leaves it
C20_ReachableState ==
    /\ _state = None \/ _state = entered \/ _state \in AllToStates
    /\ (op = "process" /\ pre = None) => _state = _initial /\ entered = _initial
    /\ (op = "process" /\ pre # None) => _state = pre \/ _state \in ToStates(pre)
    /\ op = "reset" => _state = None

\* C20 witness: the machine entered Idle in its first cycle, an extend named
\* another initial state, and a later cycle stayed in Idle: the state is neither
\* the configured initial state nor the to-state of a transition
C20_Witness ==
    /\ op = "process" /\ fault = "none"
    /\ pre = "Idle" /\ _state = "Idle" /\ entered = "Idle"
    /\ _initial = "B"
    /\ "Idle" \notin AllToStates
    /\ evaluated # <<>>

====
